---- MODULE Spec2Model ----
(***************************************************************************)
(* A model of the event dispatcher's two transport adapters:               *)
(*   - KombuDispatcher      (src/src/dispatcher/kombu_dispatcher.py)       *)
(*   - AsyncRedisDispatcher (src/src/dispatcher/async_redis_dispatcher.py) *)
(* together with the part of the dispatcher core (dispatcher/ABC.py, not   *)
(* among the source files) that drives them: the handler registry, the     *)
(* Running State flag, trigger and the dispatch loop.  The definitions of  *)
(* that part follow the specification text and are marked "core".          *)
(*                                                                         *)
(* The brokers are modelled at their interface:                            *)
(*   - AMQP-style broker: a direct exchange, named queues with bindings, a *)
(*     message goes to every declared queue bound with its routing key,    *)
(*     consumers of one queue compete for its messages, unacknowledged     *)
(*     messages return to the queue when the consumer's connection closes. *)
(*   - Redis pub/sub: publish delivers to the current subscribers of the   *)
(*     channel and returns their number.                                   *)
(***************************************************************************)
EXTENDS Integers, Sequences, FiniteSets, TLC

\* ------------------------------------------------------------------ bounds

\* Inputs of the environment in one run: handler registrations, trigger
\* calls, foreign frames and injected failures (connect, open, read, ack,
\* publish).
MaxOps == 4
\* The same, in the runs with two dispatchers on one broker.
MaxSharedOps == 2
\* The same, in the runs of the suspension-based adapter.
MaxRedisOps == 3
\* Publish calls in the runs over the queue and exchange options.
MaxBindOps == 2
\* Publish calls in the runs of several threads on one channel pool.
MaxPoolOps == 4

\* ------------------------------------------------------- program constants

\* kombu_dispatcher.py:59  pool_size = 10
PoolSize == 10

\* ---------------------------------------------------------------- universe

\* The threads that call publish on one dispatcher.
Threads == {"t1", "t2", "t3"}

\* The blocking (Kombu) dispatchers: two processes on one broker.
Disp == {"A", "B"}
Namespaces == {"orders", "audit"}
\* "connect" is the reserved event name.
Events == {"created", "connect"}
TriggerEvents == {"created"}
Payloads == {42, 7}
\* Values of the "extra_routing_keys" queue option: absent, one string, a
\* list of strings, a list repeating the namespace.
ExtraKeySets == {[str |-> FALSE, val |-> <<>>],
                 [str |-> TRUE, val |-> "audit"],
                 [str |-> FALSE, val |-> <<"audit", "billing">>],
                 [str |-> FALSE, val |-> <<"orders">>]}
\* Routing keys given to publish.
RoutingKeys == {"orders", "audit", "billing", "jobs", "other"}
\* Handler "hx" raises whenever it is called; "h1" returns normally.
Handlers == {"h1", "hx"}
HandlerRaises(h) == h = "hx"

NoMsg == [tag |-> 0, src |-> "none", key |-> "none",
          body |-> [fmt |-> "none", event |-> "none", data |-> 0]]

NoEvent == [event |-> "none", data |-> 0]

NoArg == [key |-> "none", body |-> NoMsg.body, sent |-> NoEvent]

VARIABLES
    \* ==== the blocking adapter and its broker
    \* ---- configuration, fixed at construction
    namespace,      \* Dispatcher.namespace, per dispatcher
    queue_options,  \* KombuDispatcher.queue_options, per dispatcher
    exchange_options, \* KombuDispatcher.exchange_options, per dispatcher
    \* ---- dispatcher core
    running,        \* the Running State: "idle" | "running" | "stopped"
    handlers,       \* the Handler Registry: event name -> sequence of handlers
    log,            \* handler invocations, in order, per dispatcher
    logged,         \* number of records written to the dispatcher's logger
    \* ---- KombuDispatcher._listen (one generator per dispatcher)
    lpc,            \* position of the generator
    reader_queue,   \* the queue description the generator made (line 106)
    lmsg,           \* the message the generator holds
    unacked,        \* messages delivered on the connection and never acked
    received,       \* the messages receive() has yielded, in order
    outcome,        \* what the dispatch loop did with each yielded frame
    \* ---- KombuDispatcher._publish (one publishing thread per dispatcher)
    pool,           \* the lazily created channel pool: created, held
    pubpc,          \* position of the publish call
    pubarg,         \* routing key and frame of the publish call
    \* ---- the AMQP broker
    declared,       \* queue names declared on the broker
    bindings,       \* <<exchange, queue, routing key>> bindings
    queues,         \* queue name -> messages waiting
    \* ---- history
    published,      \* every message the exchange accepted, with its routing
    budget,         \* inputs the environment may still make in this run
    stopMark,       \* Len(received) when stop() cleared the flag, else -1
    streak,         \* failures of the generator since it last yielded
    connectOwed,    \* the connect handlers registered when start() succeeded
    initlog,        \* initialize() calls: how many, connect() calls, the last
    stops,          \* number of stop() calls
    acked,          \* tags of the messages the generator acknowledged
    \* ---- KombuDispatcher._publish called from several threads
    pools,          \* held channels of every ChannelPool created, in order
    channel_pool,   \* self.__channel_pool: index into pools, 0 for None
    tpc,            \* per thread: its position in _publish / _channel_pool
    tpool,          \* per thread: the pool its channel came from
    tbudget,        \* publish calls the threads may still make
    \* ==== the suspension-based adapter and its broker
    rstate,         \* the Running State of the Redis dispatcher
    rhandlers,      \* its Handler Registry
    rlog,           \* its handler invocations, in order
    rlogged,        \* number of records written to its logger
    rclient,        \* self.redis and self.pubsub exist
    rtasks,         \* tasks scheduled on the event loop and not yet run
    rowed,          \* per successful initialize(): the connect handlers then
    rlpc,           \* position of the _listen generator
    rcoros,         \* coroutine objects created and never awaited
    rsubs,          \* channels the dispatcher's pubsub is subscribed to
    extsubs,        \* channel -> number of other subscribers
    rinbox,         \* messages the broker delivered to the pubsub
    rproduced,      \* messages receive() has produced
    rsent,          \* every publish: channel, data, returned count
    rinits,         \* history of initialize() attempts: how each ended
    ccase,          \* codec: the payload and the broker metadata under test
    cmsg,           \* codec: the broker message carrying the published bytes
    cparsed,        \* codec: what _parse_payload returned for cmsg
    rbudget         \* inputs the environment may still make in this run

kvars == <<namespace, queue_options, exchange_options, reader_queue,
           running, handlers, log, logged, lpc, lmsg, unacked, received,
           outcome, pool, pubpc, pubarg, declared, bindings, queues,
           published, budget, stopMark, streak, connectOwed, initlog, stops,
           acked, pools, channel_pool, tpc, tpool, tbudget>>

rvars == <<rstate, rhandlers, rlog, rlogged, rclient, rtasks, rowed, rlpc,
           rcoros, rsubs, extsubs, rinbox, rproduced, rsent, rbudget,
           rinits, ccase, cmsg, cparsed>>

vars == <<kvars, rvars>>

\* ------------------------------------------------------------ payload codec
\* core (spec 4.1): encode never fails; decode inverts encode and fails on
\* bytes no encode produced.

Encode(e, p) == [fmt |-> "codec", event |-> e, data |-> p]

JunkFrame == [fmt |-> "junk", event |-> "none", data |-> 0]

Decode(frame) ==
    IF frame.fmt = "codec"
    THEN [ok |-> TRUE, event |-> frame.event, data |-> frame.data]
    ELSE [ok |-> FALSE, event |-> "none", data |-> 0]

\* --------------------------------------------------------------- utilities

Range(s) == {s[i] : i \in 1..Len(s)}

IsSet(d) == running[d] = "running"

\* ------------------------------------------------- KombuDispatcher: set-up

\* The options of a dispatcher constructed without any (lines 43-44:
\* exchange_options or {}, queue_options or {}).  An "extra_routing_keys"
\* option is one string (str = TRUE, val the string) or a list of strings
\* (str = FALSE, val the list); without the option it is the empty list.
NoExtraKeys == [str |-> FALSE, val |-> <<>>]

DefaultQueueOptions == [hasName |-> FALSE, name |-> "none",
                        extra |-> NoExtraKeys]

DefaultExchangeOptions == [hasName |-> FALSE, name |-> "none",
                           hasDurable |-> FALSE, durable |-> FALSE]

\* An _exchange() that pops "name" from the dispatcher's own option dict.
KombuExchangePop(xopts) ==
    [name |-> IF xopts.hasName THEN xopts.name ELSE "dispatcher",
     durable |-> IF xopts.hasDurable THEN xopts.durable ELSE FALSE,
     exchange_options |-> [xopts EXCEPT !.hasName = FALSE, !.name = "none"]]

\* Lines 63-67, _exchange(): the defaults {"durable": False} are updated with
\* a copy of the configured options and "name" is popped from the result,
\* default "dispatcher".  exchange_options is what the dispatcher's own
\* option dict holds after the call.
KombuExchange(xopts) ==
    [name |-> IF xopts.hasName THEN xopts.name ELSE "dispatcher",
     durable |-> IF xopts.hasDurable THEN xopts.durable ELSE FALSE,
     exchange_options |-> xopts]

\* A _queue() that binds a renamed queue to its name and the extra keys only.
KombuQueueNoNamespace(ns, qopts, xopts) ==
    LET name == IF qopts.hasName THEN qopts.name ELSE ns
        extra_routing_keys == IF qopts.extra.str THEN <<qopts.extra.val>>
                              ELSE qopts.extra.val
    IN  [name |-> name, keys |-> <<name>> \o extra_routing_keys,
         exchange |-> KombuExchange(xopts).name,
         queue_options |-> qopts, exchange_options |-> xopts]

\* Lines 69-84, _queue(): the queue's name, the routing keys it is bound
\* with and the exchange of the bindings.  The options are popped from a
\* copy (line 70); queue_options and exchange_options are what the
\* dispatcher's own option dicts hold after the call.
KombuQueue(ns, qopts, xopts) ==
    LET name == IF qopts.hasName THEN qopts.name ELSE ns
        extra_routing_keys == IF qopts.extra.str THEN <<qopts.extra.val>>
                              ELSE qopts.extra.val
        routing_keys == <<name>> \o extra_routing_keys
                        \o (IF name # ns THEN <<ns>> ELSE <<>>)
        exchange == KombuExchange(xopts)
    IN  [name |-> name, keys |-> routing_keys, exchange |-> exchange.name,
         queue_options |-> qopts,
         exchange_options |-> exchange.exchange_options]

QueueOf(d) == KombuQueue(namespace[d], queue_options[d], exchange_options[d])

\* The option sets dispatchers are constructed with.
QueueOptionSets ==
    {[hasName |-> FALSE, name |-> "none", extra |-> x] : x \in ExtraKeySets}
    \cup {[hasName |-> TRUE, name |-> n, extra |-> x] :
              n \in {"jobs", "orders"}, x \in ExtraKeySets}

ExchangeOptionSets ==
    {DefaultExchangeOptions,
     [hasName |-> TRUE, name |-> "events", hasDurable |-> TRUE,
      durable |-> TRUE]}

Exchanges == {KombuExchange(x).name : x \in ExchangeOptionSets}

QueueNames ==
    {KombuQueue(ns, q, DefaultExchangeOptions).name :
         ns \in Namespaces, q \in QueueOptionSets}

\* The queue description of a generator that has not made one.
NoQueue == [name |-> "none", keys |-> <<>>, exchange |-> "none"]

\* The record of a dispatcher on which initialize() was never called.
NoInit == [calls |-> 0, connects |-> 0, ok |-> FALSE, raised |-> FALSE]

\* An initialize() without the try/except: the failure propagates.
KombuInitializeRaise(d, ok) ==
    /\ logged' = logged
    /\ log' = log
    /\ initlog' = [initlog EXCEPT ![d] =
           [calls |-> @.calls + 1, connects |-> @.connects + 1,
            ok |-> ok, raised |-> ~ok]]

\* Lines 86-93, initialize(): connect() is called once; a failure is logged
\* and swallowed.  Nothing else happens on success: no event is triggered,
\* no state is changed.
KombuInitialize(d, ok) ==
    /\ logged' = IF ok THEN logged ELSE [logged EXCEPT ![d] = @ + 1]
    /\ log' = log
    /\ initlog' = [initlog EXCEPT ![d] =
           [calls |-> @.calls + 1, connects |-> @.connects + 1,
            ok |-> ok, raised |-> FALSE]]

\* ---------------------------------------------------------------- the core

\* core (spec 4.2): register appends the handler to the event's entry.
Register(d, e, h) ==
    /\ budget > 0
    /\ budget' = budget - 1
    /\ handlers' = [handlers EXCEPT ![d][e] = Append(@, h)]
    /\ UNCHANGED <<namespace, queue_options, exchange_options, reader_queue,
                   running, log, logged, lpc, lmsg, unacked, received,
                   outcome, pool, pubpc, pubarg, declared, bindings, queues,
                   published, stopMark, streak, connectOwed, initlog, stops,
                   acked, pools, channel_pool, tpc, tpool, tbudget, rstate,
                   rhandlers, rlog, rlogged, rclient, rtasks, rowed, rlpc,
                   rcoros, rsubs, extsubs, rinbox, rproduced, rsent,
                   rbudget, rinits, ccase, cmsg, cparsed>>

\* core (spec 4.2): start() runs the adapter's initialize(); on success the
\* state becomes running and the consume loop starts, on failure the state
\* stays idle.
Start(d, ok) ==
    /\ running[d] = "idle"
    /\ ok \/ budget > 0
    /\ KombuInitialize(d, ok)
    /\ running' = IF ok THEN [running EXCEPT ![d] = "running"] ELSE running
    /\ lpc' = IF ok THEN [lpc EXCEPT ![d] = "start"] ELSE lpc
    /\ connectOwed' = IF ok
                      THEN [connectOwed EXCEPT ![d] =
                               [on |-> TRUE, hs |-> handlers[d]["connect"]]]
                      ELSE connectOwed
    /\ budget' = IF ok THEN budget ELSE budget - 1
    /\ UNCHANGED <<namespace, queue_options, exchange_options, reader_queue,
                   handlers, lmsg, unacked, received, outcome, pool, pubpc,
                   pubarg, declared, bindings, queues, published, stopMark,
                   streak, stops, acked, pools, channel_pool, tpc, tpool,
                   tbudget, rstate, rhandlers, rlog, rlogged, rclient,
                   rtasks, rowed, rlpc, rcoros, rsubs, extsubs, rinbox,
                   rproduced, rsent, rbudget, rinits, ccase, cmsg, cparsed>>

\* A stop() that reports a dispatcher that is not running as an error.
StopStrict(d) ==
    /\ running[d] \in {"running", "stopped"}
    /\ running[d] = "running" \/ budget > 0
    /\ running' = [running EXCEPT ![d] = "stopped"]
    /\ stopMark' = IF running[d] = "running"
                   THEN [stopMark EXCEPT ![d] = Len(received[d])]
                   ELSE stopMark
    /\ logged' = IF running[d] = "running" THEN logged
                 ELSE [logged EXCEPT ![d] = @ + 1]
    /\ stops' = [stops EXCEPT ![d] = @ + 1]
    /\ budget' = IF running[d] = "running" THEN budget ELSE budget - 1
    /\ UNCHANGED <<namespace, queue_options, exchange_options, reader_queue,
                   handlers, log, lpc, lmsg, unacked, received, outcome,
                   pool, pubpc, pubarg, declared, bindings, queues,
                   published, streak, connectOwed, initlog, acked, pools,
                   channel_pool, tpc, tpool, tbudget, rstate, rhandlers,
                   rlog, rlogged, rclient, rtasks, rowed, rlpc, rcoros,
                   rsubs, extsubs, rinbox, rproduced, rsent, rbudget,
                   rinits, ccase, cmsg, cparsed>>

\* core (spec 4.2): stop() moves running to stopped and is idempotent: on a
\* dispatcher already stopped it changes nothing.  A repeated call is an
\* input of the environment.
Stop(d) ==
    /\ running[d] \in {"running", "stopped"}
    /\ running[d] = "running" \/ budget > 0
    /\ running' = [running EXCEPT ![d] = "stopped"]
    /\ stopMark' = IF running[d] = "running"
                   THEN [stopMark EXCEPT ![d] = Len(received[d])]
                   ELSE stopMark
    /\ logged' = logged
    /\ stops' = [stops EXCEPT ![d] = @ + 1]
    /\ budget' = IF running[d] = "running" THEN budget ELSE budget - 1
    /\ UNCHANGED <<namespace, queue_options, exchange_options, reader_queue,
                   handlers, log, lpc, lmsg, unacked, received, outcome,
                   pool, pubpc, pubarg, declared, bindings, queues,
                   published, streak, connectOwed, initlog, acked, pools,
                   channel_pool, tpc, tpool, tbudget, rstate, rhandlers,
                   rlog, rlogged, rclient, rtasks, rowed, rlpc, rcoros,
                   rsubs, extsubs, rinbox, rproduced, rsent, rbudget,
                   rinits, ccase, cmsg, cparsed>>

\* A dispatch loop without the per-handler try/except: the first handler
\* that raises ends the dispatch and the loop.
RECURSIVE RunHandlersAbort(_, _, _, _)
RunHandlersAbort(hs, i, ev, tag) ==
    IF i > Len(hs)
    THEN [calls |-> <<>>, errors |-> 0, crashed |-> FALSE]
    ELSE LET call == [handler |-> hs[i], event |-> ev.event,
                      data |-> ev.data, tag |-> tag,
                      idx |-> i, of |-> Len(hs)]
         IN  IF HandlerRaises(hs[i])
             THEN [calls |-> <<call>>, errors |-> 0, crashed |-> TRUE]
             ELSE LET rest == RunHandlersAbort(hs, i + 1, ev, tag)
                  IN  [calls |-> <<call>> \o rest.calls,
                       errors |-> rest.errors, crashed |-> rest.crashed]

\* core (spec 4.2, dispatch_loop): the handlers hs[i..] are invoked in order
\* with the decoded event; a handler that raises is caught and logged and
\* the remaining handlers still run.  Each call records its position idx
\* among the `of` handlers registered when the frame was dispatched.
RECURSIVE RunHandlers(_, _, _, _)
RunHandlers(hs, i, ev, tag) ==
    IF i > Len(hs)
    THEN [calls |-> <<>>, errors |-> 0, crashed |-> FALSE]
    ELSE LET rest == RunHandlers(hs, i + 1, ev, tag)
             call == [handler |-> hs[i], event |-> ev.event,
                      data |-> ev.data, tag |-> tag,
                      idx |-> i, of |-> Len(hs)]
         IN  [calls |-> <<call>> \o rest.calls,
              errors |-> rest.errors + (IF HandlerRaises(hs[i]) THEN 1 ELSE 0),
              crashed |-> rest.crashed]

\* A dispatch loop that lets the decode failure escape.
DispatchFrameCrash(reg, msg) ==
    LET ev == Decode(msg.body)
    IN  IF ~ev.ok
        THEN [calls |-> <<>>, errors |-> 0, crashed |-> TRUE,
              what |-> "dropped"]
        ELSE LET r == RunHandlers(reg[ev.event], 1, ev, msg.tag)
             IN  [calls |-> r.calls, errors |-> r.errors,
                  crashed |-> r.crashed, what |-> "dispatched"]

\* core (spec 4.2, dispatch_loop): one frame is decoded and dispatched; a
\* decode failure is logged and the frame is skipped.
DispatchFrame(reg, msg) ==
    LET ev == Decode(msg.body)
    IN  IF ~ev.ok
        THEN [calls |-> <<>>, errors |-> 1, crashed |-> FALSE,
              what |-> "dropped"]
        ELSE LET r == RunHandlers(reg[ev.event], 1, ev, msg.tag)
             IN  [calls |-> r.calls, errors |-> r.errors,
                  crashed |-> r.crashed, what |-> "dispatched"]

\* core (spec 4.2, dispatch_loop): the loop takes the frame receive() has
\* yielded, dispatches it and asks receive() for the next one, which resumes
\* the generator after its yield (kombu_dispatcher.py:117), inside the inner
\* `while True` (line 114): the next statement is queue.get (line 115).
Dispatch(d) ==
    /\ lpc[d] = "yielded"
    /\ LET r == DispatchFrame(handlers[d], lmsg[d])
       IN  /\ log' = [log EXCEPT ![d] = @ \o r.calls]
           /\ logged' = [logged EXCEPT ![d] = @ + r.errors]
           /\ outcome' = [outcome EXCEPT ![d] = Append(@, r.what)]
           /\ lpc' = [lpc EXCEPT ![d] = IF r.crashed THEN "crashed" ELSE "get"]
    /\ lmsg' = [lmsg EXCEPT ![d] = NoMsg]
    /\ UNCHANGED <<namespace, queue_options, exchange_options, reader_queue,
                   running, handlers, unacked, received, pool, pubpc,
                   pubarg, declared, bindings, queues, published, budget,
                   stopMark, streak, connectOwed, initlog, stops, acked,
                   pools, channel_pool, tpc, tpool, tbudget, rstate,
                   rhandlers, rlog, rlogged, rclient, rtasks, rowed, rlpc,
                   rcoros, rsubs, extsubs, rinbox, rproduced, rsent,
                   rbudget, rinits, ccase, cmsg, cparsed>>

\* ------------------------------------------------ KombuDispatcher._listen

\* Lines 106-110: the queue is described, the connection is ensured (the
\* client library retries until it has one) and entered.
ListenStart(d) ==
    /\ lpc[d] = "start"
    /\ LET q == QueueOf(d)
       IN  /\ reader_queue' = [reader_queue EXCEPT ![d] =
                  [name |-> q.name, keys |-> q.keys, exchange |-> q.exchange]]
           /\ queue_options' = [queue_options EXCEPT ![d] = q.queue_options]
           /\ exchange_options' =
                  [exchange_options EXCEPT ![d] = q.exchange_options]
    /\ lpc' = [lpc EXCEPT ![d] = "check"]
    /\ UNCHANGED <<namespace, running, handlers, log, logged, lmsg, unacked,
                   received, outcome, pool, pubpc, pubarg, declared,
                   bindings, queues, published, budget, stopMark, streak,
                   connectOwed, initlog, stops, acked, pools, channel_pool,
                   tpc, tpool, tbudget, rstate, rhandlers, rlog, rlogged,
                   rclient, rtasks, rowed, rlpc, rcoros, rsubs, extsubs,
                   rinbox, rproduced, rsent, rbudget, rinits, ccase, cmsg,
                   cparsed>>

\* Line 111: while self._running.is_set().  When the flag is not set the
\* generator ends and `with connection` releases the connection: the broker
\* returns its unacknowledged messages to the queue.
ListenCheck(d) ==
    /\ lpc[d] = "check"
    /\ IF IsSet(d)
       THEN /\ lpc' = [lpc EXCEPT ![d] = "open"]
            /\ UNCHANGED <<queues, unacked>>
       ELSE /\ lpc' = [lpc EXCEPT ![d] = "done"]
            /\ queues' = [queues EXCEPT ![reader_queue[d].name] = unacked[d] \o @]
            /\ unacked' = [unacked EXCEPT ![d] = <<>>]
    /\ UNCHANGED <<namespace, queue_options, exchange_options, reader_queue,
                   running, handlers, log, logged, lmsg, received, outcome,
                   pool, pubpc, pubarg, declared, bindings, published,
                   budget, stopMark, streak, connectOwed, initlog, stops,
                   acked, pools, channel_pool, tpc, tpool, tbudget, rstate,
                   rhandlers, rlog, rlogged, rclient, rtasks, rowed, rlpc,
                   rcoros, rsubs, extsubs, rinbox, rproduced, rsent,
                   rbudget, rinits, ccase, cmsg, cparsed>>

\* An except clause that logs and re-raises.
ListenExceptRaise(d) ==
    /\ logged' = [logged EXCEPT ![d] = @ + 1]
    /\ streak' = [streak EXCEPT ![d] = @ + 1]
    /\ lpc' = [lpc EXCEPT ![d] = "raised"]

\* Lines 118-121: except Exception: the error is logged and control returns
\* to the `while` test of line 111.
ListenExcept(d) ==
    /\ logged' = [logged EXCEPT ![d] = @ + 1]
    /\ streak' = [streak EXCEPT ![d] = @ + 1]
    /\ lpc' = [lpc EXCEPT ![d] = "check"]

\* Line 113: connection.SimpleQueue(reader_queue) declares the queue and its
\* bindings and starts a consumer, or raises.
ListenOpen(d, ok) ==
    /\ lpc[d] = "open"
    /\ IF ok
       THEN /\ declared' = declared \cup {reader_queue[d].name}
            /\ bindings' = bindings \cup
                   {<<reader_queue[d].exchange, reader_queue[d].name, k>> :
                        k \in Range(reader_queue[d].keys)}
            /\ lpc' = [lpc EXCEPT ![d] = "get"]
            /\ UNCHANGED <<logged, streak, budget>>
       ELSE /\ budget > 0
            /\ budget' = budget - 1
            /\ ListenExcept(d)
            /\ UNCHANGED <<declared, bindings>>
    /\ UNCHANGED <<namespace, queue_options, exchange_options, reader_queue,
                   running, handlers, log, lmsg, unacked, received, outcome,
                   pool, pubpc, pubarg, queues, published, stopMark,
                   connectOwed, initlog, stops, acked, pools, channel_pool,
                   tpc, tpool, tbudget, rstate, rhandlers, rlog, rlogged,
                   rclient, rtasks, rowed, rlpc, rcoros, rsubs, extsubs,
                   rinbox, rproduced, rsent, rbudget, rinits, ccase, cmsg,
                   cparsed>>

\* Line 115: message = queue.get(block=True) blocks until the queue holds a
\* message and takes the oldest one, or raises.
ListenGet(d, ok) ==
    /\ lpc[d] = "get"
    /\ IF ok
       THEN /\ queues[reader_queue[d].name] # <<>>
            /\ lmsg' = [lmsg EXCEPT ![d] = Head(queues[reader_queue[d].name])]
            /\ queues' = [queues EXCEPT ![reader_queue[d].name] = Tail(@)]
            /\ lpc' = [lpc EXCEPT ![d] = "ack"]
            /\ UNCHANGED <<logged, streak, budget>>
       ELSE /\ budget > 0
            /\ budget' = budget - 1
            /\ ListenExcept(d)
            /\ UNCHANGED <<lmsg, queues>>
    /\ UNCHANGED <<namespace, queue_options, exchange_options, reader_queue,
                   running, handlers, log, unacked, received, outcome, pool,
                   pubpc, pubarg, declared, bindings, published, stopMark,
                   connectOwed, initlog, stops, acked, pools, channel_pool,
                   tpc, tpool, tbudget, rstate, rhandlers, rlog, rlogged,
                   rclient, rtasks, rowed, rlpc, rcoros, rsubs, extsubs,
                   rinbox, rproduced, rsent, rbudget, rinits, ccase, cmsg,
                   cparsed>>

\* message.requeue() in place of message.ack(): the broker keeps the message
\* at the head of the queue and the frame is yielded all the same.
ListenAckRequeue(d, ok) ==
    /\ lpc[d] = "ack"
    /\ IF ok
       THEN /\ lpc' = [lpc EXCEPT ![d] = "yield"]
            /\ queues' = [queues EXCEPT ![reader_queue[d].name] = <<lmsg[d]>> \o @]
            /\ UNCHANGED <<lmsg, unacked, logged, streak, budget>>
       ELSE /\ budget > 0
            /\ budget' = budget - 1
            /\ unacked' = [unacked EXCEPT ![d] = Append(@, lmsg[d])]
            /\ lmsg' = [lmsg EXCEPT ![d] = NoMsg]
            /\ ListenExcept(d)
            /\ UNCHANGED queues
    /\ UNCHANGED <<namespace, queue_options, exchange_options, reader_queue,
                   running, handlers, log, received, outcome, pool, pubpc,
                   pubarg, declared, bindings, published, stopMark,
                   connectOwed, initlog, stops, acked, pools, channel_pool,
                   tpc, tpool, tbudget, rstate, rhandlers, rlog, rlogged,
                   rclient, rtasks, rowed, rlpc, rcoros, rsubs, extsubs,
                   rinbox, rproduced, rsent, rbudget, rinits, ccase, cmsg,
                   cparsed>>

\* A generator that swallows a failure of message.ack() and yields all the
\* same.
ListenAckSkip(d, ok) ==
    /\ lpc[d] = "ack"
    /\ lpc' = [lpc EXCEPT ![d] = "yield"]
    /\ IF ok
       THEN /\ acked' = [acked EXCEPT ![d] = @ \cup {lmsg[d].tag}]
            /\ UNCHANGED <<unacked, budget>>
       ELSE /\ budget > 0
            /\ budget' = budget - 1
            /\ unacked' = [unacked EXCEPT ![d] = Append(@, lmsg[d])]
            /\ UNCHANGED acked
    /\ UNCHANGED <<namespace, queue_options, exchange_options, reader_queue,
                   running, handlers, log, logged, lmsg, received, outcome,
                   pool, pubpc, pubarg, declared, bindings, queues,
                   published, stopMark, streak, connectOwed, initlog, stops,
                   pools, channel_pool, tpc, tpool, tbudget, rstate,
                   rhandlers, rlog, rlogged, rclient, rtasks, rowed, rlpc,
                   rcoros, rsubs, extsubs, rinbox, rproduced, rsent,
                   rbudget, rinits, ccase, cmsg, cparsed>>

\* Line 116: message.ack() acknowledges the message, or raises and leaves
\* it unacknowledged on the connection.
ListenAck(d, ok) ==
    /\ lpc[d] = "ack"
    /\ IF ok
       THEN /\ lpc' = [lpc EXCEPT ![d] = "yield"]
            /\ acked' = [acked EXCEPT ![d] = @ \cup {lmsg[d].tag}]
            /\ UNCHANGED <<lmsg, unacked, logged, streak, budget>>
       ELSE /\ budget > 0
            /\ budget' = budget - 1
            /\ unacked' = [unacked EXCEPT ![d] = Append(@, lmsg[d])]
            /\ lmsg' = [lmsg EXCEPT ![d] = NoMsg]
            /\ ListenExcept(d)
            /\ UNCHANGED acked
    /\ UNCHANGED <<namespace, queue_options, exchange_options, reader_queue,
                   running, handlers, log, received, outcome, pool, pubpc,
                   pubarg, declared, bindings, queues, published, stopMark,
                   connectOwed, initlog, stops, pools, channel_pool, tpc,
                   tpool, tbudget, rstate, rhandlers, rlog, rlogged,
                   rclient, rtasks, rowed, rlpc, rcoros, rsubs, extsubs,
                   rinbox, rproduced, rsent, rbudget, rinits, ccase, cmsg,
                   cparsed>>

\* Line 117: yield message.payload hands the frame to the caller and
\* suspends the generator there.
ListenYield(d) ==
    /\ lpc[d] = "yield"
    /\ received' = [received EXCEPT ![d] = Append(@, lmsg[d])]
    /\ streak' = [streak EXCEPT ![d] = 0]
    /\ lpc' = [lpc EXCEPT ![d] = "yielded"]
    /\ UNCHANGED <<namespace, queue_options, exchange_options, reader_queue,
                   running, handlers, log, logged, lmsg, unacked, outcome,
                   pool, pubpc, pubarg, declared, bindings, queues,
                   published, budget, stopMark, connectOwed, initlog, stops,
                   acked, pools, channel_pool, tpc, tpool, tbudget, rstate,
                   rhandlers, rlog, rlogged, rclient, rtasks, rowed, rlpc,
                   rcoros, rsubs, extsubs, rinbox, rproduced, rsent,
                   rbudget, rinits, ccase, cmsg, cparsed>>

\* ------------------------------------------------------- the AMQP exchange

\* The queues a message published on exchange x with routing key `key`
\* goes to (direct exchange).
Route(x, key) == {q \in declared : <<x, q, key>> \in bindings}

InFlight == Cardinality({d \in Disp : pubpc[d] = "acquired"})

\* The dispatchers whose generator has a consumer open on its queue.
Consuming == {d \in Disp : lpc[d] \in {"get", "ack", "yield", "yielded"}}

\* The exchange accepts a message and appends it to every queue it routes to.
\* The history keeps, with the message: the event as the sender gave it, the
\* queues it went to, the dispatchers other than the sender consuming and
\* the handlers registered for the event at that moment.
Accept(src, x, key, body, sent) ==
    LET m == [tag |-> Len(published) + 1, src |-> src, key |-> key,
              body |-> body]
    IN  /\ queues' = [q \in QueueNames |->
                        IF q \in Route(x, key) THEN Append(queues[q], m)
                        ELSE queues[q]]
        /\ published' = Append(published,
               [tag |-> m.tag, src |-> src, key |-> key, body |-> body,
                sent |-> sent, exchange |-> x, routed |-> Route(x, key),
                consuming |-> Consuming \ {src},
                regs |-> [d \in Disp |->
                            IF sent.event \in Events
                            THEN handlers[d][sent.event] ELSE <<>>]])

\* A process that is no dispatcher publishes bytes no codec produced.
ForeignPublish(x, key) ==
    /\ budget > 0
    /\ budget' = budget - 1
    /\ Accept("ext", x, key, JunkFrame, NoEvent)
    /\ UNCHANGED <<namespace, queue_options, exchange_options, reader_queue,
                   running, handlers, log, logged, lpc, lmsg, unacked,
                   received, outcome, pool, pubpc, pubarg, declared,
                   bindings, stopMark, streak, connectOwed, initlog, stops,
                   acked, pools, channel_pool, tpc, tpool, tbudget, rstate,
                   rhandlers, rlog, rlogged, rclient, rtasks, rowed, rlpc,
                   rcoros, rsubs, extsubs, rinbox, rproduced, rsent,
                   rbudget, rinits, ccase, cmsg, cparsed>>

\* ----------------------------------------------- KombuDispatcher._publish

\* Lines 56-61 and 100: channel = self._channel_pool.acquire().  The pool is
\* created on first use with limit PoolSize; acquire takes a channel out of
\* it, or raises when all PoolSize channels are out.
PublishAcquire(d, key, frame, sent) ==
    IF pool[d].held < PoolSize
    THEN /\ pool' = [pool EXCEPT ![d] = [created |-> TRUE, held |-> @.held + 1]]
         /\ pubpc' = [pubpc EXCEPT ![d] = "acquired"]
         /\ pubarg' = [pubarg EXCEPT ![d] =
                           [key |-> key, body |-> frame, sent |-> sent]]
    ELSE /\ pool' = [pool EXCEPT ![d].created = TRUE]
         /\ UNCHANGED <<pubpc, pubarg>>

\* Lines 101-102: the producer is made for the exchange _exchange() returns
\* and publishes the frame with the routing key, or raises; Producer.__exit__ releases nothing of the pool, and an exception
\* leaves _publish before line 103.
PublishSend(d, ok) ==
    /\ pubpc[d] = "acquired"
    /\ IF ok
       THEN /\ Accept(d, KombuExchange(exchange_options[d]).name,
                      pubarg[d].key, pubarg[d].body, pubarg[d].sent)
            /\ pubpc' = [pubpc EXCEPT ![d] = "sent"]
       ELSE /\ budget > 0
            /\ pubpc' = [pubpc EXCEPT ![d] = "idle"]
            /\ UNCHANGED <<queues, published>>
    /\ exchange_options' = [exchange_options EXCEPT ![d] =
           KombuExchange(@).exchange_options]
    /\ budget' = IF ok THEN budget ELSE budget - 1
    /\ pubarg' = [pubarg EXCEPT ![d] = NoArg]
    /\ UNCHANGED <<namespace, queue_options, reader_queue, running,
                   handlers, log, logged, lpc, lmsg, unacked, received,
                   outcome, pool, declared, bindings, stopMark, streak,
                   connectOwed, initlog, stops, acked, pools, channel_pool,
                   tpc, tpool, tbudget, rstate, rhandlers, rlog, rlogged,
                   rclient, rtasks, rowed, rlpc, rcoros, rsubs, extsubs,
                   rinbox, rproduced, rsent, rbudget, rinits, ccase, cmsg,
                   cparsed>>

\* Line 103: channel.release() returns the channel to the pool.
PublishRelease(d) ==
    /\ pubpc[d] = "sent"
    /\ pool' = [pool EXCEPT ![d].held = @ - 1]
    /\ pubpc' = [pubpc EXCEPT ![d] = "idle"]
    /\ UNCHANGED <<namespace, queue_options, exchange_options, reader_queue,
                   running, handlers, log, logged, lpc, lmsg, unacked,
                   received, outcome, pubarg, declared, bindings, queues,
                   published, budget, stopMark, streak, connectOwed,
                   initlog, stops, acked, pools, channel_pool, tpc, tpool,
                   tbudget, rstate, rhandlers, rlog, rlogged, rclient,
                   rtasks, rowed, rlpc, rcoros, rsubs, extsubs, rinbox,
                   rproduced, rsent, rbudget, rinits, ccase, cmsg, cparsed>>

\* core (spec 4.2): trigger encodes (event, payload) and hands the frame to
\* the adapter's publish, targeting namespace ns.
Trigger(d, e, p, ns) ==
    /\ pubpc[d] = "idle"
    /\ budget > 0
    /\ budget' = budget - 1
    /\ PublishAcquire(d, ns, Encode(e, p), [event |-> e, data |-> p])
    /\ UNCHANGED <<namespace, queue_options, exchange_options, reader_queue,
                   running, handlers, log, logged, lpc, lmsg, unacked,
                   received, outcome, declared, bindings, queues, published,
                   stopMark, streak, connectOwed, initlog, stops, acked,
                   pools, channel_pool, tpc, tpool, tbudget, rstate,
                   rhandlers, rlog, rlogged, rclient, rtasks, rowed, rlpc,
                   rcoros, rsubs, extsubs, rinbox, rproduced, rsent,
                   rbudget, rinits, ccase, cmsg, cparsed>>


\* ---- _publish and the _channel_pool property, statement by statement, as
\* several threads of one process run them.

\* Line 100 begins: a thread enters _publish and evaluates the property.
TPublishCall(t) ==
    /\ tpc[t] = "idle"
    /\ tbudget > 0
    /\ tbudget' = tbudget - 1
    /\ tpc' = [tpc EXCEPT ![t] = "check"]
    /\ UNCHANGED <<namespace, queue_options, exchange_options, reader_queue,
                   running, handlers, log, logged, lpc, lmsg, unacked,
                   received, outcome, pool, pubpc, pubarg, declared,
                   bindings, queues, published, budget, stopMark, streak,
                   connectOwed, initlog, stops, acked, pools, channel_pool,
                   tpool, rstate, rhandlers, rlog, rlogged, rclient, rtasks,
                   rowed, rlpc, rcoros, rsubs, extsubs, rinbox, rproduced,
                   rsent, rbudget, rinits, ccase, cmsg, cparsed>>

\* Line 58: if not self.__channel_pool.
TPoolCheck(t) ==
    /\ tpc[t] = "check"
    /\ tpc' = [tpc EXCEPT ![t] = IF channel_pool = 0 THEN "create"
                                 ELSE "return"]
    /\ UNCHANGED <<namespace, queue_options, exchange_options, reader_queue,
                   running, handlers, log, logged, lpc, lmsg, unacked,
                   received, outcome, pool, pubpc, pubarg, declared,
                   bindings, queues, published, budget, stopMark, streak,
                   connectOwed, initlog, stops, acked, pools, channel_pool,
                   tpool, tbudget, rstate, rhandlers, rlog, rlogged,
                   rclient, rtasks, rowed, rlpc, rcoros, rsubs, extsubs,
                   rinbox, rproduced, rsent, rbudget, rinits, ccase, cmsg,
                   cparsed>>

\* Lines 59-60: a ChannelPool of limit 10 is created and assigned.
TPoolCreate(t) ==
    /\ tpc[t] = "create"
    /\ pools' = Append(pools, 0)
    /\ channel_pool' = Len(pools) + 1
    /\ tpc' = [tpc EXCEPT ![t] = "return"]
    /\ UNCHANGED <<namespace, queue_options, exchange_options, reader_queue,
                   running, handlers, log, logged, lpc, lmsg, unacked,
                   received, outcome, pool, pubpc, pubarg, declared,
                   bindings, queues, published, budget, stopMark, streak,
                   connectOwed, initlog, stops, acked, tpool, tbudget,
                   rstate, rhandlers, rlog, rlogged, rclient, rtasks, rowed,
                   rlpc, rcoros, rsubs, extsubs, rinbox, rproduced, rsent,
                   rbudget, rinits, ccase, cmsg, cparsed>>

\* Line 61: return self.__channel_pool.
TPoolReturn(t) ==
    /\ tpc[t] = "return"
    /\ tpool' = [tpool EXCEPT ![t] = channel_pool]
    /\ tpc' = [tpc EXCEPT ![t] = "acquire"]
    /\ UNCHANGED <<namespace, queue_options, exchange_options, reader_queue,
                   running, handlers, log, logged, lpc, lmsg, unacked,
                   received, outcome, pool, pubpc, pubarg, declared,
                   bindings, queues, published, budget, stopMark, streak,
                   connectOwed, initlog, stops, acked, pools, channel_pool,
                   tbudget, rstate, rhandlers, rlog, rlogged, rclient,
                   rtasks, rowed, rlpc, rcoros, rsubs, extsubs, rinbox,
                   rproduced, rsent, rbudget, rinits, ccase, cmsg, cparsed>>

\* Line 100: acquire() takes a channel of the pool, or raises when the
\* pool's limit is reached.
TAcquire(t) ==
    /\ tpc[t] = "acquire"
    /\ IF pools[tpool[t]] < PoolSize
       THEN /\ pools' = [pools EXCEPT ![tpool[t]] = @ + 1]
            /\ tpc' = [tpc EXCEPT ![t] = "send"]
       ELSE /\ pools' = pools
            /\ tpc' = [tpc EXCEPT ![t] = "idle"]
    /\ UNCHANGED <<namespace, queue_options, exchange_options, reader_queue,
                   running, handlers, log, logged, lpc, lmsg, unacked,
                   received, outcome, pool, pubpc, pubarg, declared,
                   bindings, queues, published, budget, stopMark, streak,
                   connectOwed, initlog, stops, acked, channel_pool, tpool,
                   tbudget, rstate, rhandlers, rlog, rlogged, rclient,
                   rtasks, rowed, rlpc, rcoros, rsubs, extsubs, rinbox,
                   rproduced, rsent, rbudget, rinits, ccase, cmsg, cparsed>>

\* Lines 101-102: the frame is published, or the publish raises and the
\* thread leaves _publish before line 103.
TSend(t, ok) ==
    /\ tpc[t] = "send"
    /\ tpc' = [tpc EXCEPT ![t] = IF ok THEN "release" ELSE "idle"]
    /\ UNCHANGED <<namespace, queue_options, exchange_options, reader_queue,
                   running, handlers, log, logged, lpc, lmsg, unacked,
                   received, outcome, pool, pubpc, pubarg, declared,
                   bindings, queues, published, budget, stopMark, streak,
                   connectOwed, initlog, stops, acked, pools, channel_pool,
                   tpool, tbudget, rstate, rhandlers, rlog, rlogged,
                   rclient, rtasks, rowed, rlpc, rcoros, rsubs, extsubs,
                   rinbox, rproduced, rsent, rbudget, rinits, ccase, cmsg,
                   cparsed>>

\* Line 103: channel.release() returns the channel to the pool it came from.
TRelease(t) ==
    /\ tpc[t] = "release"
    /\ pools' = [pools EXCEPT ![tpool[t]] = @ - 1]
    /\ tpc' = [tpc EXCEPT ![t] = "idle"]
    /\ UNCHANGED <<namespace, queue_options, exchange_options, reader_queue,
                   running, handlers, log, logged, lpc, lmsg, unacked,
                   received, outcome, pool, pubpc, pubarg, declared,
                   bindings, queues, published, budget, stopMark, streak,
                   connectOwed, initlog, stops, acked, channel_pool, tpool,
                   tbudget, rstate, rhandlers, rlog, rlogged, rclient,
                   rtasks, rowed, rlpc, rcoros, rsubs, extsubs, rinbox,
                   rproduced, rsent, rbudget, rinits, ccase, cmsg, cparsed>>

\* --------------------------------------------------- AsyncRedisDispatcher

\* The namespace the Redis dispatcher is constructed with.
RNamespace == "orders"

\* How an attempt to create the client and the pubsub handle can end.
InitOutcomes == {"ok", "redis_error", "other_error"}

\* ---- pickle, protocol 4, for the payloads the dispatcher publishes: a
\* dict {"event": str, "data": int}.  A pickle is a sequence of opcodes, each
\* with its argument bytes (and, for a string, its text).

\* The integers pickled as "data": one, two and four byte encodings, both
\* signs, and the values around each boundary.
CodecInts == {0, 7, 42, 255, 256, 300, 65535, 65536, 70000, -1, -42, -70000}

\* The byte length of the UTF-8 encoding of the strings that are pickled.
Utf8Len(s) ==
    CASE s = "event" -> 5
      [] s = "data" -> 4
      [] s = "created" -> 7
      [] s = "connect" -> 7
      [] OTHER -> 0

\* The k little-endian bytes of n >= 0.
RECURSIVE LEBytes(_, _)
LEBytes(n, k) ==
    IF k = 0 THEN <<>> ELSE <<n % 256>> \o LEBytes(n \div 256, k - 1)

RECURSIVE FromLE(_)
FromLE(bs) ==
    IF bs = <<>> THEN 0 ELSE bs[1] + 256 * FromLE(Tail(bs))

\* Four bytes, little-endian two's complement.
Int32Bytes(n) ==
    IF n >= 0 THEN LEBytes(n, 4)
    ELSE [i \in 1..4 |-> 255 - LEBytes(-n - 1, 4)[i]]

FromInt32(bs) ==
    IF bs[4] < 128 THEN FromLE(bs)
    ELSE -FromLE([i \in 1..4 |-> 255 - bs[i]]) - 1

Op(name, arg, text) == [op |-> name, arg |-> arg, text |-> text]

\* An encoder that writes every int in one byte.
PickleIntNarrow(n) == Op("BININT1", <<n % 256>>, "")

\* save_long: the shortest of BININT1, BININT2, BININT.
PickleInt(n) ==
    IF n >= 0 /\ n < 256 THEN Op("BININT1", <<n>>, "")
    ELSE IF n >= 0 /\ n < 65536 THEN Op("BININT2", LEBytes(n, 2), "")
    ELSE Op("BININT", Int32Bytes(n), "")

\* save_str: SHORT_BINUNICODE with a one-byte length, then memoized.
PickleStr(s) == <<Op("SHORT_BINUNICODE", <<Utf8Len(s)>>, s), Op("MEMOIZE", <<>>, "")>>

\* The bytes an opcode takes on the wire.
OpSize(t) ==
    1 + Len(t.arg) + (IF t.op = "SHORT_BINUNICODE" THEN t.arg[1] ELSE 0)

RECURSIVE WireSize(_)
WireSize(ts) == IF ts = <<>> THEN 0 ELSE OpSize(ts[1]) + WireSize(Tail(ts))

\* save_dict of the payload and the final STOP.
PickleBody(v) ==
    <<Op("EMPTY_DICT", <<>>, ""), Op("MEMOIZE", <<>>, ""), Op("MARK", <<>>, "")>>
    \o PickleStr("event") \o PickleStr(v.event)
    \o PickleStr("data") \o <<PickleInt(v.data)>>
    \o <<Op("SETITEMS", <<>>, ""), Op("STOP", <<>>, "")>>

\* Line 67, pickle.dumps(payload): PROTO 4, one FRAME holding the body.
PickleDumps(v) ==
    <<Op("PROTO", <<4>>, ""),
      Op("FRAME", LEBytes(WireSize(PickleBody(v)), 8), "")>>
    \o PickleBody(v)

\* Values on the unpickler's stack.
Item(k, n, str, items) == [k |-> k, n |-> n, s |-> str, items |-> items]

UnpickleError == [ok |-> FALSE, value |-> NoEvent]

\* The position of the topmost MARK on the stack, 0 if there is none.
TopMark(st) ==
    LET ms == {i \in 1..Len(st) : st[i].k = "mark"}
    IN  IF ms = {} THEN 0 ELSE CHOOSE i \in ms : \A j \in ms : j <= i

\* The value of a key in the item list of a dict: the last one set.
RECURSIVE DictGet(_, _, _)
DictGet(items, key, default) ==
    IF items = <<>> THEN default
    ELSE IF items[Len(items) - 1].s = key THEN items[Len(items)]
    ELSE DictGet(SubSeq(items, 1, Len(items) - 2), key, default)

\* The Python value of the item a pickle leaves on the stack.
PyValue(item) ==
    IF item.k = "dict"
    THEN [event |-> DictGet(item.items, "event", Item("str", 0, "none", <<>>)).s,
          data |-> DictGet(item.items, "data", Item("int", 0, "", <<>>)).n]
    ELSE [event |-> item.s, data |-> item.n]

\* The unpickler: one opcode after the other against a stack.
RECURSIVE Unpickle(_, _, _)
Unpickle(ts, i, st) ==
    IF i > Len(ts) THEN UnpickleError
    ELSE LET t == ts[i]
             m == TopMark(st)
         IN  CASE t.op = "PROTO" ->
                    IF t.arg[1] <= 5 THEN Unpickle(ts, i + 1, st)
                    ELSE UnpickleError
               [] t.op = "FRAME" ->
                    IF FromLE(t.arg) <= WireSize(SubSeq(ts, i + 1, Len(ts)))
                    THEN Unpickle(ts, i + 1, st)
                    ELSE UnpickleError
               [] t.op = "EMPTY_DICT" ->
                    Unpickle(ts, i + 1, Append(st, Item("dict", 0, "", <<>>)))
               [] t.op = "MEMOIZE" ->
                    IF st = <<>> THEN UnpickleError
                    ELSE Unpickle(ts, i + 1, st)
               [] t.op = "MARK" ->
                    Unpickle(ts, i + 1, Append(st, Item("mark", 0, "", <<>>)))
               [] t.op = "SHORT_BINUNICODE" ->
                    IF t.arg[1] = Utf8Len(t.text)
                    THEN Unpickle(ts, i + 1, Append(st, Item("str", 0, t.text, <<>>)))
                    ELSE UnpickleError
               [] t.op = "BININT1" ->
                    Unpickle(ts, i + 1, Append(st, Item("int", t.arg[1], "", <<>>)))
               [] t.op = "BININT2" ->
                    Unpickle(ts, i + 1, Append(st, Item("int", FromLE(t.arg), "", <<>>)))
               [] t.op = "BININT" ->
                    Unpickle(ts, i + 1, Append(st, Item("int", FromInt32(t.arg), "", <<>>)))
               [] t.op = "SETITEMS" ->
                    IF m < 2 \/ (Len(st) - m) % 2 # 0 THEN UnpickleError
                    ELSE IF st[m - 1].k # "dict" THEN UnpickleError
                    ELSE Unpickle(ts, i + 1,
                             Append(SubSeq(st, 1, m - 2),
                                    Item("dict", 0, "",
                                         st[m - 1].items
                                         \o SubSeq(st, m + 1, Len(st)))))
               [] t.op = "STOP" ->
                    IF st = <<>> THEN UnpickleError
                    ELSE [ok |-> TRUE, value |-> PyValue(st[Len(st)])]
               [] OTHER -> UnpickleError

\* Line 64, pickle.loads(data).
PickleLoads(b) == Unpickle(b, 1, <<>>)

\* Lines 62-64, _parse_payload: only the "data" field of the broker message
\* is unpickled.
RedisParsePayload(message) == PickleLoads(message.data)

\* core (spec 4.2): _trigger_event(name) invokes the handlers registered for
\* the name, in registration order.
LocalCalls(hs, e) ==
    [k \in 1..Len(hs) |-> [handler |-> hs[k], event |-> e, data |-> 0,
                           tag |-> 0, idx |-> k, of |-> Len(hs)]]

\* An initialize() that awaits the connect trigger itself instead of
\* scheduling it.
RedisInitializeInline(how) ==
    /\ rclient' = (rclient \/ how = "ok")
    /\ rlogged' = IF how = "redis_error" THEN rlogged + 1 ELSE rlogged
    /\ rtasks' = rtasks
    /\ rowed' = rowed
    /\ rlog' = IF how = "ok"
               THEN rlog \o LocalCalls(rhandlers["connect"], "connect")
               ELSE rlog
    /\ rinits' = Append(rinits, [how |-> how,
                                 logged |-> how = "redis_error",
                                 raised |-> how = "other_error",
                                 scheduled |-> how = "ok"])

\* Lines 48-60, initialize(): the client and the pubsub handle are created;
\* a RedisError is logged and swallowed, any other exception propagates;
\* on success the connect trigger is scheduled as a task on the event loop.
RedisInitialize(how) ==
    /\ rclient' = (rclient \/ how = "ok")
    /\ rlogged' = IF how = "redis_error" THEN rlogged + 1 ELSE rlogged
    /\ rtasks' = IF how = "ok" THEN Append(rtasks, "connect") ELSE rtasks
    /\ rowed' = IF how = "ok" THEN Append(rowed, rhandlers["connect"])
                ELSE rowed
    /\ rlog' = rlog
    /\ rinits' = Append(rinits, [how |-> how,
                                 logged |-> how = "redis_error",
                                 raised |-> how = "other_error",
                                 scheduled |-> how = "ok"])

\* core (spec 4.2): start() runs initialize(); on success the state becomes
\* running and the consume loop is started, on failure the state stays idle.
RStart(how) ==
    /\ rstate = "idle"
    /\ how = "ok" \/ rbudget > 0
    /\ rbudget' = IF how = "ok" THEN rbudget ELSE rbudget - 1
    /\ RedisInitialize(how)
    /\ rstate' = IF how = "ok" THEN "running" ELSE rstate
    /\ rlpc' = IF how = "ok" THEN "start" ELSE rlpc
    /\ UNCHANGED <<namespace, queue_options, exchange_options, reader_queue,
                   running, handlers, log, logged, lpc, lmsg, unacked,
                   received, outcome, pool, pubpc, pubarg, declared,
                   bindings, queues, published, budget, stopMark, streak,
                   connectOwed, initlog, stops, acked, pools, channel_pool,
                   tpc, tpool, tbudget, rhandlers, rcoros, rsubs, extsubs,
                   rinbox, rproduced, rsent, ccase, cmsg, cparsed>>

\* The event loop runs the oldest scheduled task: _trigger_event("connect").
RRunTask ==
    /\ rtasks # <<>>
    /\ rtasks' = Tail(rtasks)
    /\ rlog' = rlog \o LocalCalls(rhandlers[Head(rtasks)], Head(rtasks))
    /\ rlogged' = rlogged + Cardinality({k \in 1..Len(rhandlers[Head(rtasks)]) :
                                 HandlerRaises(rhandlers[Head(rtasks)][k])})
    /\ UNCHANGED <<namespace, queue_options, exchange_options, reader_queue,
                   running, handlers, log, logged, lpc, lmsg, unacked,
                   received, outcome, pool, pubpc, pubarg, declared,
                   bindings, queues, published, budget, stopMark, streak,
                   connectOwed, initlog, stops, acked, pools, channel_pool,
                   tpc, tpool, tbudget, rstate, rhandlers, rclient, rowed,
                   rlpc, rcoros, rsubs, extsubs, rinbox, rproduced, rsent,
                   rbudget, rinits, ccase, cmsg, cparsed>>

\* core (spec 4.2): register.
RRegister(e, h) ==
    /\ rbudget > 0
    /\ rbudget' = rbudget - 1
    /\ rhandlers' = [rhandlers EXCEPT ![e] = Append(@, h)]
    /\ UNCHANGED <<namespace, queue_options, exchange_options, reader_queue,
                   running, handlers, log, logged, lpc, lmsg, unacked,
                   received, outcome, pool, pubpc, pubarg, declared,
                   bindings, queues, published, budget, stopMark, streak,
                   connectOwed, initlog, stops, acked, pools, channel_pool,
                   tpc, tpool, tbudget, rstate, rlog, rlogged, rclient,
                   rtasks, rowed, rlpc, rcoros, rsubs, extsubs, rinbox,
                   rproduced, rsent, rinits, ccase, cmsg, cparsed>>

\* core (spec 4.2): stop().
RStop ==
    /\ rstate \in {"running", "stopped"}
    /\ rstate' = "stopped"
    /\ UNCHANGED <<namespace, queue_options, exchange_options, reader_queue,
                   running, handlers, log, logged, lpc, lmsg, unacked,
                   received, outcome, pool, pubpc, pubarg, declared,
                   bindings, queues, published, budget, stopMark, streak,
                   connectOwed, initlog, stops, acked, pools, channel_pool,
                   tpc, tpool, tbudget, rhandlers, rlog, rlogged, rclient,
                   rtasks, rowed, rlpc, rcoros, rsubs, extsubs, rinbox,
                   rproduced, rsent, rbudget, rinits, ccase, cmsg, cparsed>>

\* Line 71: self.pubsub.subscribe(self.namespace).  subscribe is a coroutine
\* function and the call is not awaited: a coroutine object is created and
\* dropped, no SUBSCRIBE reaches the broker.
RedisListenSubscribe ==
    /\ rlpc = "start"
    /\ rcoros' = rcoros + 1
    /\ rsubs' = rsubs
    /\ rlpc' = "listen"
    /\ UNCHANGED <<namespace, queue_options, exchange_options, reader_queue,
                   running, handlers, log, logged, lpc, lmsg, unacked,
                   received, outcome, pool, pubpc, pubarg, declared,
                   bindings, queues, published, budget, stopMark, streak,
                   connectOwed, initlog, stops, acked, pools, channel_pool,
                   tpc, tpool, tbudget, rstate, rhandlers, rlog, rlogged,
                   rclient, rtasks, rowed, extsubs, rinbox, rproduced,
                   rsent, rbudget, rinits, ccase, cmsg, cparsed>>

\* Line 72: for message in await self.pubsub.listen().  listen() returns an
\* async generator, which cannot be awaited: TypeError is raised out of
\* _listen; line 73 (yield message) is never reached.
RedisListenAwait ==
    /\ rlpc = "listen"
    /\ rlpc' = "raised"
    /\ UNCHANGED <<namespace, queue_options, exchange_options, reader_queue,
                   running, handlers, log, logged, lpc, lmsg, unacked,
                   received, outcome, pool, pubpc, pubarg, declared,
                   bindings, queues, published, budget, stopMark, streak,
                   connectOwed, initlog, stops, acked, pools, channel_pool,
                   tpc, tpool, tbudget, rstate, rhandlers, rlog, rlogged,
                   rclient, rtasks, rowed, rcoros, rsubs, extsubs, rinbox,
                   rproduced, rsent, rbudget, rinits, ccase, cmsg, cparsed>>

\* core (spec 4.2, state machine): an error out of receive() ends the consume
\* loop: running --unrecoverable transport error--> stopped.
RLoopFailed ==
    /\ rlpc = "raised"
    /\ rstate = "running"
    /\ rstate' = "stopped"
    /\ rlogged' = rlogged + 1
    /\ UNCHANGED <<namespace, queue_options, exchange_options, reader_queue,
                   running, handlers, log, logged, lpc, lmsg, unacked,
                   received, outcome, pool, pubpc, pubarg, declared,
                   bindings, queues, published, budget, stopMark, streak,
                   connectOwed, initlog, stops, acked, pools, channel_pool,
                   tpc, tpool, tbudget, rhandlers, rlog, rclient, rtasks,
                   rowed, rlpc, rcoros, rsubs, extsubs, rinbox, rproduced,
                   rsent, rbudget, rinits, ccase, cmsg, cparsed>>

\* Another client of the broker subscribes to a channel.
ExtSubscribe(c) ==
    /\ rbudget > 0
    /\ rbudget' = rbudget - 1
    /\ extsubs' = [extsubs EXCEPT ![c] = @ + 1]
    /\ UNCHANGED <<namespace, queue_options, exchange_options, reader_queue,
                   running, handlers, log, logged, lpc, lmsg, unacked,
                   received, outcome, pool, pubpc, pubarg, declared,
                   bindings, queues, published, budget, stopMark, streak,
                   connectOwed, initlog, stops, acked, pools, channel_pool,
                   tpc, tpool, tbudget, rstate, rhandlers, rlog, rlogged,
                   rclient, rtasks, rowed, rlpc, rcoros, rsubs, rinbox,
                   rproduced, rsent, rinits, ccase, cmsg, cparsed>>

\* A publish that treats an empty channel as an error.
RedisPublishStrict(c, payload) ==
    LET message == PickleDumps(payload)
        count == extsubs[c] + (IF c \in rsubs THEN 1 ELSE 0)
    IN  /\ rinbox' = IF c \in rsubs
                     THEN Append(rinbox, [channel |-> c, data |-> message])
                     ELSE rinbox
        /\ rsent' = Append(rsent, [namespace |-> c, payload |-> payload,
                                   channel |-> c, data |-> message,
                                   count |-> count, raised |-> count = 0,
                                   listening |-> rlpc \in {"listen", "raised"}])

\* Lines 66-68, _publish: the payload is pickled and published on the channel
\* named by the namespace; the broker hands the message to the channel's
\* subscribers and returns their number.
RedisPublish(c, payload) ==
    LET message == PickleDumps(payload)
        count == extsubs[c] + (IF c \in rsubs THEN 1 ELSE 0)
    IN  /\ rinbox' = IF c \in rsubs
                     THEN Append(rinbox, [channel |-> c, data |-> message])
                     ELSE rinbox
        /\ rsent' = Append(rsent, [namespace |-> c, payload |-> payload,
                                   channel |-> c, data |-> message,
                                   count |-> count, raised |-> FALSE,
                                   listening |-> rlpc \in {"listen", "raised"}])

\* core (spec 4.2): trigger hands the event to the adapter's publish.
RTrigger(e, p, c) ==
    /\ rclient
    /\ rbudget > 0
    /\ rbudget' = rbudget - 1
    /\ RedisPublish(c, [event |-> e, data |-> p])
    /\ UNCHANGED <<namespace, queue_options, exchange_options, reader_queue,
                   running, handlers, log, logged, lpc, lmsg, unacked,
                   received, outcome, pool, pubpc, pubarg, declared,
                   bindings, queues, published, budget, stopMark, streak,
                   connectOwed, initlog, stops, acked, pools, channel_pool,
                   tpc, tpool, tbudget, rstate, rhandlers, rlog, rlogged,
                   rclient, rtasks, rowed, rlpc, rcoros, rsubs, extsubs,
                   rproduced, rinits, ccase, cmsg, cparsed>>

\* ---- the codec on its own: what _publish puts on the wire, wrapped by the
\* broker in a pubsub message, handed to _parse_payload.

\* The metadata fields of a pubsub message of redis-py: type, pattern,
\* channel.
CodecMeta ==
    [type : {"message", "pmessage"}, pattern : {"none", "ord*"},
     channel : Namespaces]

CodecCases ==
    [payload : [event : Events, data : CodecInts], meta : CodecMeta]

NoCase == [payload |-> NoEvent,
           meta |-> [type |-> "none", pattern |-> "none", channel |-> "none"]]

\* The message a pubsub handle returns for published bytes.
BrokerMessage(meta, bytes) ==
    [type |-> meta.type, pattern |-> meta.pattern, channel |-> meta.channel,
     data |-> bytes]

NoMessage == BrokerMessage(NoCase.meta, <<>>)

NoParsed == [done |-> FALSE, ok |-> FALSE, value |-> NoEvent]

\* Line 67: the payload under test is pickled; the broker wraps the bytes.
CodecPublish ==
    /\ ccase # NoCase
    /\ cmsg = NoMessage
    /\ cmsg' = BrokerMessage(ccase.meta, PickleDumps(ccase.payload))
    /\ UNCHANGED <<namespace, queue_options, exchange_options, reader_queue,
                   running, handlers, log, logged, lpc, lmsg, unacked,
                   received, outcome, pool, pubpc, pubarg, declared,
                   bindings, queues, published, budget, stopMark, streak,
                   connectOwed, initlog, stops, acked, pools, channel_pool,
                   tpc, tpool, tbudget, rstate, rhandlers, rlog, rlogged,
                   rclient, rtasks, rowed, rlpc, rcoros, rsubs, extsubs,
                   rinbox, rproduced, rsent, rbudget, rinits, ccase,
                   cparsed>>

\* Lines 62-64: the broker message is handed to _parse_payload.
CodecParse ==
    /\ cmsg # NoMessage
    /\ ~cparsed.done
    /\ cparsed' = [done |-> TRUE, ok |-> RedisParsePayload(cmsg).ok,
                   value |-> RedisParsePayload(cmsg).value]
    /\ UNCHANGED <<namespace, queue_options, exchange_options, reader_queue,
                   running, handlers, log, logged, lpc, lmsg, unacked,
                   received, outcome, pool, pubpc, pubarg, declared,
                   bindings, queues, published, budget, stopMark, streak,
                   connectOwed, initlog, stops, acked, pools, channel_pool,
                   tpc, tpool, tbudget, rstate, rhandlers, rlog, rlogged,
                   rclient, rtasks, rowed, rlpc, rcoros, rsubs, extsubs,
                   rinbox, rproduced, rsent, rbudget, rinits, ccase, cmsg>>

\* ------------------------------------------------------- the specification

RedisInitWith(cases) ==
    /\ ccase \in cases
    /\ cmsg = NoMessage
    /\ cparsed = NoParsed
    /\ rstate = "idle"
    /\ rhandlers = [e \in Events |-> <<>>]
    /\ rlog = <<>>
    /\ rlogged = 0
    /\ rclient = FALSE
    /\ rtasks = <<>>
    /\ rowed = <<>>
    /\ rlpc = "idle"
    /\ rcoros = 0
    /\ rsubs = {}
    /\ extsubs = [c \in Namespaces |-> 0]
    /\ rinbox = <<>>
    /\ rproduced = <<>>
    /\ rsent = <<>>
    /\ rbudget = MaxRedisOps
    /\ rinits = <<>>

RedisInit == RedisInitWith({NoCase})

KombuInitWith(nss, qos, xos, n) ==
    /\ namespace \in nss
    /\ queue_options \in qos
    /\ exchange_options \in xos
    /\ reader_queue = [d \in Disp |-> NoQueue]
    /\ running = [d \in Disp |-> "idle"]
    /\ handlers = [d \in Disp |-> [e \in Events |-> <<>>]]
    /\ log = [d \in Disp |-> <<>>]
    /\ logged = [d \in Disp |-> 0]
    /\ lpc = [d \in Disp |-> "idle"]
    /\ lmsg = [d \in Disp |-> NoMsg]
    /\ unacked = [d \in Disp |-> <<>>]
    /\ received = [d \in Disp |-> <<>>]
    /\ outcome = [d \in Disp |-> <<>>]
    /\ pool = [d \in Disp |-> [created |-> FALSE, held |-> 0]]
    /\ pubpc = [d \in Disp |-> "idle"]
    /\ pubarg = [d \in Disp |-> NoArg]
    /\ declared = {}
    /\ bindings = {}
    /\ queues = [q \in QueueNames |-> <<>>]
    /\ published = <<>>
    /\ budget = n
    /\ stopMark = [d \in Disp |-> -1]
    /\ streak = [d \in Disp |-> 0]
    /\ connectOwed = [d \in Disp |-> [on |-> FALSE, hs |-> <<>>]]
    /\ initlog = [d \in Disp |-> NoInit]
    /\ stops = [d \in Disp |-> 0]
    /\ acked = [d \in Disp |-> {}]
    /\ pools = <<>>
    /\ channel_pool = 0
    /\ tpc = [t \in Threads |-> "idle"]
    /\ tpool = [t \in Threads |-> 0]
    /\ tbudget = MaxPoolOps

InitWith(nss, qos, xos, n) ==
    /\ KombuInitWith(nss, qos, xos, n)
    /\ RedisInit

\* One dispatcher, "A", is used and every frame is published on its
\* namespace; "B" is constructed and never used.
Init == InitWith({[d \in Disp |-> "orders"]},
                 {[d \in Disp |-> DefaultQueueOptions]},
                 {[d \in Disp |-> DefaultExchangeOptions]}, MaxOps)

Next ==
    \/ \E e \in Events, h \in Handlers : Register("A", e, h)
    \/ \E ok \in BOOLEAN : Start("A", ok)
    \/ Stop("A")
    \/ ListenStart("A")
    \/ ListenCheck("A")
    \/ \E ok \in BOOLEAN : ListenOpen("A", ok)
    \/ \E ok \in BOOLEAN : ListenGet("A", ok)
    \/ \E ok \in BOOLEAN : ListenAck("A", ok)
    \/ ListenYield("A")
    \/ Dispatch("A")
    \/ \E e \in TriggerEvents, p \in Payloads :
           Trigger("A", e, p, namespace["A"])
    \/ \E ok \in BOOLEAN : PublishSend("A", ok)
    \/ PublishRelease("A")
    \/ ForeignPublish(KombuExchange(DefaultExchangeOptions).name,
                      namespace["A"])

Spec == Init /\ [][Next]_vars

\* Two dispatchers on one broker, both running without faults and without
\* stop(); "A" listens on "orders", "B" on either namespace.
InitShared ==
    InitWith({f \in [Disp -> Namespaces] : f["A"] = "orders"},
             {[d \in Disp |-> DefaultQueueOptions]},
             {[d \in Disp |-> DefaultExchangeOptions]}, MaxSharedOps)

NextShared ==
    \/ \E d \in Disp, e \in TriggerEvents, h \in Handlers : Register(d, e, h)
    \/ \E d \in Disp : Start(d, TRUE)
    \/ \E d \in Disp : ListenStart(d)
    \/ \E d \in Disp : ListenCheck(d)
    \/ \E d \in Disp : ListenOpen(d, TRUE)
    \/ \E d \in Disp : ListenGet(d, TRUE)
    \/ \E d \in Disp : ListenAck(d, TRUE)
    \/ \E d \in Disp : ListenYield(d)
    \/ \E d \in Disp : Dispatch(d)
    \/ \E d \in Disp, e \in TriggerEvents, p \in Payloads, ns \in Namespaces :
           Trigger(d, e, p, ns)
    \/ \E d \in Disp : PublishSend(d, TRUE)
    \/ \E d \in Disp : PublishRelease(d)

SpecShared == InitShared /\ [][NextShared]_vars

\* One dispatcher, "A", with namespace "orders", constructed with each of the
\* queue and exchange option sets, running without faults; frames are
\* published with every routing key, by "A" on its exchange and by another
\* process on every exchange.
InitBindings ==
    InitWith({[d \in Disp |-> "orders"]},
             {f \in [Disp -> QueueOptionSets] : f["B"] = DefaultQueueOptions},
             {f \in [Disp -> ExchangeOptionSets] :
                  f["B"] = DefaultExchangeOptions},
             MaxBindOps)

NextBindings ==
    \/ Start("A", TRUE)
    \/ ListenStart("A")
    \/ ListenCheck("A")
    \/ ListenOpen("A", TRUE)
    \/ ListenGet("A", TRUE)
    \/ ListenAck("A", TRUE)
    \/ ListenYield("A")
    \/ Dispatch("A")
    \/ \E e \in TriggerEvents, key \in RoutingKeys : Trigger("A", e, 42, key)
    \/ PublishSend("A", TRUE)
    \/ PublishRelease("A")
    \/ \E x \in Exchanges, key \in RoutingKeys : ForeignPublish(x, key)

SpecBindings == InitBindings /\ [][NextBindings]_vars

\* ================================================================== claims

\* The handlers named by a sequence of calls.
HandlersOf(cs) == [k \in 1..Len(cs) |-> cs[k].handler]

\* The calls dispatcher d made for the message with this tag.
Calls(d, tag) == SelectSeq(log[d], LAMBDA c : c.tag = tag)

\* The message is still with the broker or on its way to a dispatch loop.
InTransit(tag) ==
    \/ \E q \in QueueNames : \E i \in 1..Len(queues[q]) : queues[q][i].tag = tag
    \/ \E d \in Disp : \E i \in 1..Len(unacked[d]) : unacked[d][i].tag = tag
    \/ \E d \in Disp : lpc[d] \in {"ack", "yield"} /\ lmsg[d].tag = tag

\* Every frame receive() has yielded was dispatched, but the one the loop
\* holds right now.
LoopKeepsUp(d) ==
    Len(received[d]) = Len(outcome[d]) + (IF lpc[d] = "yielded" THEN 1 ELSE 0)

\* C1 (as claimed): dispatchers a and b share a namespace; a has handlers
\* registered for an event and is consuming when b triggers it on the
\* namespace, the exchange routes the message to a's queue and a stays
\* running.  Once the broker has handed the message out and a's loop is not
\* busy with it, each of these handlers was invoked on a, once, in order,
\* with the payload -- also when b (or any dispatcher with the same queue
\* name) consumes at the same time.
C1_SharedNamespaceDelivery ==
    \A a \in Disp, b \in Disp : \A i \in 1..Len(published) :
        LET m == published[i]
            cs == SelectSeq(log[a], LAMBDA c :
                      c.tag = m.tag /\ c.idx <= Len(m.regs[a]))
        IN  ( /\ a # b
              /\ namespace[a] = namespace[b]
              /\ m.src = b
              /\ m.key = namespace[b]
              /\ QueueOf(a).name \in m.routed
              /\ a \in m.consuming
              /\ IsSet(a)
              /\ ~InTransit(m.tag)
              /\ ~(lpc[a] = "yielded" /\ lmsg[a].tag = m.tag) )
            => /\ HandlersOf(cs) = m.regs[a]
               /\ \A k \in 1..Len(cs) : cs[k].data = m.sent.data

\* C2 (as claimed): with no publish in flight, no channel is held out of the
\* pool, whatever publishes succeeded or raised before.
C2_ChannelsReleased ==
    \A d \in Disp : pubpc[d] = "idle" => pool[d].held = 0

\* C3 (as claimed): once stop() has cleared the flag, receive() yields at
\* most one more frame, the one of the read in flight.
C3_StopEndsReceive ==
    \A d \in Disp :
        stopMark[d] >= 0 => Len(received[d]) <= stopMark[d] + 1

C6_HandlerIsolation ==
    \A d \in Disp :
        /\ lpc[d] # "crashed"
        /\ LoopKeepsUp(d)
        /\ \A k \in 1..Len(log[d]) :
               log[d][k].idx < log[d][k].of =>
                   /\ k < Len(log[d])
                   /\ log[d][k + 1].tag = log[d][k].tag
                   /\ log[d][k + 1].idx = log[d][k].idx + 1
        /\ logged[d] >=
               Cardinality({k \in 1..Len(log[d]) :
                               HandlerRaises(log[d][k].handler)})

\* C6 witness: a handler raised, the next handler ran for the same frame,
\* and a handler ran for a later frame.
C6_Witness ==
    \E d \in Disp : \E k \in 1..Len(log[d]), k2 \in 1..Len(log[d]) :
        /\ HandlerRaises(log[d][k].handler)
        /\ k < Len(log[d])
        /\ log[d][k + 1].tag = log[d][k].tag
        /\ ~HandlerRaises(log[d][k + 1].handler)
        /\ k2 > k
        /\ log[d][k2].tag > log[d][k].tag

\* C7: for every frame a dispatcher received and dispatched, the calls made
\* for it are exactly the handlers registered for the frame's event name,
\* each once, in registration order, with the event and payload the sender
\* gave to trigger; they include every handler registered before the
\* trigger, a handler registered twice is called twice, and no handler
\* registered under another name is called.
C7_RegistrationOrder ==
    \A d \in Disp : \A j \in 1..Len(outcome[d]) :
        LET m == published[received[d][j].tag]
            cs == Calls(d, m.tag)
        IN  outcome[d][j] = "dispatched" =>
                /\ Len(cs) >= Len(m.regs[d])
                /\ Len(cs) <= Len(handlers[d][m.sent.event])
                /\ HandlersOf(cs) = SubSeq(handlers[d][m.sent.event], 1, Len(cs))
                /\ \A k \in 1..Len(cs) :
                       /\ cs[k].event = m.sent.event
                       /\ cs[k].data = m.sent.data
                       /\ cs[k].idx = k

\* C7 witness: one handler registered twice for the event was called twice
\* for one frame, while a handler is registered under another name.
C7_Witness ==
    \E d \in Disp : \E j \in 1..Len(outcome[d]) :
        LET cs == Calls(d, received[d][j].tag)
        IN  /\ Len(cs) = 2
            /\ cs[1].handler = cs[2].handler
            /\ handlers[d]["connect"] # <<>>

\* C8: in the blocking adapter a failure of opening the consumer, of the
\* queue read or of the acknowledgement is logged and control returns to the
\* loop test; while the flag is set the loop test reopens a consumer; the
\* generator ends only on a step that finds the flag not set, and never by
\* an exception.
C8_ReadFailuresKeepLoop ==
    [][\A d \in Disp :
          /\ (lpc[d] \in {"open", "get", "ack"}
                 /\ lpc'[d] \notin {"open", "get", "ack", "yield"})
              => (lpc'[d] = "check" /\ logged'[d] = logged[d] + 1)
          /\ (lpc[d] = "check" /\ IsSet(d) /\ lpc'[d] # "check")
              => lpc'[d] = "open"
          /\ (lpc'[d] # lpc[d] /\ lpc'[d] \in {"done", "raised", "crashed"})
              => (~IsSet(d) /\ lpc'[d] = "done")]_vars

\* C8 witness: after two failures in a row the generator is reading again,
\* the flag still set.
C8_Witness ==
    \E d \in Disp : streak[d] >= 2 /\ lpc[d] = "get" /\ IsSet(d)

\* C10: a frame that cannot be decoded is logged and dropped without any
\* handler call; every other frame is dispatched; the loop handles every
\* frame receive() yields, also those after a dropped one.
C10_DecodeFailurePerFrame ==
    \A d \in Disp :
        /\ lpc[d] # "crashed"
        /\ LoopKeepsUp(d)
        /\ \A j \in 1..Len(outcome[d]) :
               IF published[received[d][j].tag].src = "ext"
               THEN /\ outcome[d][j] = "dropped"
                    /\ Calls(d, received[d][j].tag) = <<>>
               ELSE outcome[d][j] = "dispatched"
        /\ logged[d] >=
               Cardinality({j \in 1..Len(outcome[d]) : outcome[d][j] = "dropped"})

\* C10 witness: a frame was dropped and a later frame was dispatched to a
\* handler by the same loop.
C10_Witness ==
    \E d \in Disp : \E j \in 1..Len(outcome[d]), j2 \in 1..Len(outcome[d]) :
        /\ j < j2
        /\ outcome[d][j] = "dropped"
        /\ outcome[d][j2] = "dispatched"
        /\ Calls(d, received[d][j2].tag) # <<>>

\* The suspension-based adapter alone.
NextRedis ==
    \/ \E e \in Events, h \in Handlers : RRegister(e, h)
    \/ \E how \in InitOutcomes : RStart(how)
    \/ RRunTask
    \/ RStop
    \/ RedisListenSubscribe
    \/ RedisListenAwait
    \/ RLoopFailed
    \/ \E c \in Namespaces : ExtSubscribe(c)
    \/ \E e \in TriggerEvents, p \in Payloads, c \in Namespaces :
           RTrigger(e, p, c)

SpecRedis == Init /\ [][NextRedis]_vars

\* The codec of the suspension-based adapter: one payload and one set of
\* metadata per behaviour, published and parsed.
InitCodec ==
    /\ KombuInitWith({[d \in Disp |-> "orders"]},
                     {[d \in Disp |-> DefaultQueueOptions]},
                     {[d \in Disp |-> DefaultExchangeOptions]}, 0)
    /\ RedisInitWith(CodecCases)

NextCodec ==
    \/ CodecPublish
    \/ CodecParse

SpecCodec == InitCodec /\ [][NextCodec]_vars

\* One dispatcher whose publish is called from several threads.
NextPool ==
    \/ \E t \in Threads : TPublishCall(t)
    \/ \E t \in Threads : TPoolCheck(t)
    \/ \E t \in Threads : TPoolCreate(t)
    \/ \E t \in Threads : TPoolReturn(t)
    \/ \E t \in Threads : TAcquire(t)
    \/ \E t \in Threads, ok \in BOOLEAN : TSend(t, ok)
    \/ \E t \in Threads : TRelease(t)

SpecPool == Init /\ [][NextPool]_vars

\* C4 (as claimed): once receive() has run its subscribe statement, every
\* message published on the namespace channel is produced by receive() or
\* waits in the subscription of a live generator, in arrival order, and
\* nothing else is.
C4_ReceiveDeliversAll ==
    LET due == SelectSeq(rsent, LAMBDA m : m.listening /\ m.channel = RNamespace)
        got == rproduced \o rinbox
    IN  /\ [k \in 1..Len(due) |-> due[k].data] = [k \in 1..Len(got) |-> got[k].data]
        /\ (rinbox # <<>> => rlpc = "listen")

\* C9 (as claimed): the generator of the suspension-based adapter does not
\* end by an error while the state is running.
C9_RedisLoopSurvives ==
    rlpc = "raised" => rstate # "running"

\* The queue name and the routing keys the options of d ask for.
ConfiguredName(d) ==
    IF queue_options[d].hasName THEN queue_options[d].name ELSE namespace[d]

ConfiguredExtraKeys(d) ==
    IF queue_options[d].extra.str THEN {queue_options[d].extra.val}
    ELSE Range(queue_options[d].extra.val)

ExpectedKeys(d) ==
    {ConfiguredName(d)} \cup ConfiguredExtraKeys(d) \cup {namespace[d]}

\* C14: the queue _queue() describes is named after the configured name,
\* default the namespace, and carries exactly the routing keys {queue name}
\* + {extra keys, given as a string or a list} + {namespace}; once declared
\* the broker holds exactly these bindings for it, on the dispatcher's
\* exchange; and a frame published after that reaches the queue if and only
\* if it is published on that exchange with one of these keys.
C14_RoutingKeyBindings ==
    /\ [](\A d \in Disp :
            /\ reader_queue[d] # NoQueue =>
                   /\ reader_queue[d].name = ConfiguredName(d)
                   /\ Range(reader_queue[d].keys) = ExpectedKeys(d)
            /\ lpc[d] \in {"get", "ack", "yield", "yielded"} =>
                   {b \in bindings : b[2] = ConfiguredName(d)}
                       = {<<reader_queue[d].exchange, ConfiguredName(d), k>> :
                              k \in ExpectedKeys(d)})
    /\ [][\A d \in Disp :
            (Len(published') = Len(published) + 1
                 /\ reader_queue[d].name \in declared) =>
                LET m == published'[Len(published')]
                    reaches == /\ m.exchange = reader_queue[d].exchange
                               /\ m.key \in ExpectedKeys(d)
                IN  /\ (ConfiguredName(d) \in m.routed) = reaches
                    /\ Len(queues'[ConfiguredName(d)])
                           = Len(queues[ConfiguredName(d)])
                             + (IF reaches THEN 1 ELSE 0)]_vars

\* C14 witness: a queue renamed "jobs" holds a frame published with an
\* extra key that is neither its name nor the namespace, and a later frame
\* with a key outside the bindings went to no queue.
C14_Witness ==
    \E d \in Disp : \E i \in 1..Len(published), j \in 1..Len(published) :
        /\ i < j
        /\ ConfiguredName(d) # namespace[d]
        /\ published[i].key \in ConfiguredExtraKeys(d)
                                  \ {ConfiguredName(d), namespace[d]}
        /\ ConfiguredName(d) \in published[i].routed
        /\ \E k \in 1..Len(queues[ConfiguredName(d)]) :
               queues[ConfiguredName(d)][k].tag = i
        /\ published[j].key \notin ExpectedKeys(d)
        /\ published[j].exchange = reader_queue[d].exchange
        /\ published[j].routed = {}

\* C20 (as claimed): every frame a dispatcher publishes with its own
\* namespace as routing key is enqueued on its own queue.
C20_SelfEchoAlways ==
    \A d \in Disp : \A i \in 1..Len(published) :
        (published[i].src = d /\ published[i].key = namespace[d])
            => ConfiguredName(d) \in published[i].routed

\* C20 (amended): once the consume loop of a dispatcher has declared its
\* queue, every frame the dispatcher publishes with its own namespace as
\* routing key is published on the exchange of the queue's bindings and is
\* enqueued on that queue; no step changes the configured exchange and queue
\* options, nor the bindings of a declared queue.
C20_SelfEcho ==
    [][/\ queue_options' = queue_options
       /\ exchange_options' = exchange_options
       /\ \A d \in Disp :
              reader_queue[d].name \in declared =>
                  /\ {b \in bindings' : b[2] = reader_queue[d].name}
                         = {b \in bindings : b[2] = reader_queue[d].name}
                  /\ reader_queue' [d] = reader_queue[d]
                  /\ (Len(published') = Len(published) + 1
                         /\ published'[Len(published')].src = d
                         /\ published'[Len(published')].key = namespace[d]) =>
                        /\ published'[Len(published')].exchange
                               = reader_queue[d].exchange
                        /\ reader_queue[d].name
                               \in published'[Len(published')].routed
                        /\ queues'[reader_queue[d].name]
                               = Append(queues[reader_queue[d].name],
                                        [tag |-> Len(published'), src |-> d,
                                         key |-> namespace[d],
                                         body |-> published'[Len(published')].body])
      ]_vars

\* C20 witness: a dispatcher with a renamed queue on a renamed exchange has
\* received a frame it published itself with its namespace as routing key.
C20_Witness ==
    \E d \in Disp : \E j \in 1..Len(received[d]) :
        /\ ConfiguredName(d) # namespace[d]
        /\ exchange_options[d].hasName
        /\ received[d][j].src = d
        /\ received[d][j].key = namespace[d]

\* C12: in the blocking adapter no initialize() lets an exception out and
\* each makes one connect() call, no retry; while the last initialize() of
\* a dispatcher is a failed one, every call so far has failed and was logged
\* once, the Running State is still idle and the consume loop was not
\* started, so that start() may be attempted again.
C12_KombuFailedConnect ==
    \A d \in Disp :
        /\ ~initlog[d].raised
        /\ initlog[d].connects = initlog[d].calls
        /\ (initlog[d].calls > 0 /\ ~initlog[d].ok) =>
               /\ running[d] = "idle"
               /\ lpc[d] = "idle"
               /\ logged[d] = initlog[d].calls
               /\ log[d] = <<>>

\* C12 witness: a dispatcher whose first start() failed to connect was
\* started by a later call and its consume loop reads the queue.
C12_Witness ==
    \E d \in Disp :
        /\ initlog[d].calls >= 2
        /\ initlog[d].ok
        /\ logged[d] >= 1
        /\ running[d] = "running"
        /\ lpc[d] = "get"

Tags(ms) == {ms[k].tag : k \in 1..Len(ms)}

\* C18: in the blocking adapter every frame the generator yields, or is about
\* to yield, was acknowledged before; a message whose acknowledgement raised
\* stays unacknowledged and is not yielded; and a yielded frame is neither
\* yielded twice nor left with the broker for a later read, whatever the
\* handlers did with it.
C18_AckBeforeYield ==
    \A d \in Disp :
        /\ Tags(received[d]) \subseteq acked[d]
        /\ lpc[d] \in {"yield", "yielded"} => lmsg[d].tag \in acked[d]
        /\ Tags(unacked[d]) \cap acked[d] = {}
        /\ Tags(unacked[d]) \cap Tags(received[d]) = {}
        /\ Cardinality(Tags(received[d])) = Len(received[d])
        /\ \A q \in QueueNames : Tags(queues[q]) \cap Tags(received[d]) = {}

\* C18 witness: the acknowledgement of one message raised, a handler raised
\* on a yielded frame, and the generator is reading again.
C18_Witness ==
    \E d \in Disp :
        /\ unacked[d] # <<>>
        /\ \E k \in 1..Len(log[d]) : HandlerRaises(log[d][k].handler)
        /\ received[d] # <<>>
        /\ lpc[d] = "get"

\* C11: on the suspension-based adapter every initialize() attempt that
\* failed, whatever the failure, was logged, returned without raising and
\* scheduled no connect trigger; with no successful attempt no connect handler
\* has run.
C11_RedisFailedConnect ==
    /\ \A k \in 1..Len(rinits) :
           rinits[k].how # "ok" =>
               /\ rinits[k].logged
               /\ ~rinits[k].raised
               /\ ~rinits[k].scheduled
    /\ (\A k \in 1..Len(rinits) : rinits[k].how # "ok") =>
           /\ rtasks = <<>>
           /\ rlog = <<>>

\* The connect calls a run of the scheduled trigger makes on the handlers
\* registered at that moment.
ConnectCalls == LocalCalls(rhandlers["connect"], "connect")

\* C13: a successful initialize() appends the connect trigger to the event
\* loop's tasks and runs no handler itself; the connect handlers run in the
\* step in which the event loop executes that task, and in no other step.
C13_DeferredConnect ==
    /\ [](Len(rlog) > 0 => \E k \in 1..Len(rinits) : rinits[k].how = "ok")
    /\ [][/\ (/\ Len(rinits') = Len(rinits) + 1
              /\ rinits'[Len(rinits')].how = "ok") =>
                 /\ rtasks' = Append(rtasks, "connect")
                 /\ rlog' = rlog
          /\ (rtasks # <<>> /\ rtasks' = Tail(rtasks)) =>
                 rlog' = rlog \o ConnectCalls
          /\ rlog' # rlog => (rtasks # <<>> /\ rtasks' = Tail(rtasks))]_vars

\* C13 witness: initialize() succeeded with a connect handler registered, the
\* event loop has executed the task and the handler has run.
C13_Witness ==
    /\ \E k \in 1..Len(rinits) : rinits[k].how = "ok"
    /\ rtasks = <<>>
    /\ \E k \in 1..Len(rlog) : rlog[k].event = "connect"

\* The number of live subscribers of a channel at the broker.
Subscribers(c) == extsubs[c] + (IF c \in rsubs THEN 1 ELSE 0)

\* C16: a publish on the suspension-based adapter reaches the channel named
\* exactly by its namespace argument, carries the pickled payload, returns
\* the broker's subscriber count of that channel without raising (0 when
\* nobody listens), and leaves the dispatcher's state, registry and tasks as
\* they were.
C16_PublishNoListeners ==
    [][Len(rsent') = Len(rsent) + 1 =>
          LET r == rsent'[Len(rsent')]
          IN  /\ r.channel = r.namespace
              /\ r.data = PickleDumps(r.payload)
              /\ r.count = Subscribers(r.namespace)
              /\ ~r.raised
              /\ Subscribers(r.namespace) = 0 => r.count = 0
              /\ UNCHANGED <<rstate, rhandlers, rlog, rlogged, rclient,
                             rtasks, rlpc, rsubs, extsubs, rinits>>]_vars

\* C16 witness: one publish found no subscriber and returned 0, another found
\* one and returned 1.
C16_Witness ==
    /\ \E k \in 1..Len(rsent) : rsent[k].count = 0 /\ ~rsent[k].raised
    /\ \E k \in 1..Len(rsent) : rsent[k].count = 1

\* C17: the broker message that carries the bytes _publish produced for a
\* payload p is parsed back to p, and with any other metadata around the same
\* bytes _parse_payload returns the same value.
C17_CodecRoundTrip ==
    /\ cmsg # NoMessage =>
           /\ RedisParsePayload(cmsg).ok
           /\ RedisParsePayload(cmsg).value = ccase.payload
           /\ \A meta \in CodecMeta :
                  RedisParsePayload(BrokerMessage(meta, cmsg.data))
                      = RedisParsePayload(cmsg)
    /\ cparsed.done => (cparsed.ok /\ cparsed.value = ccase.payload)

\* C17 witness: a payload whose data needs the four-byte two's complement
\* encoding went through a pattern message and was parsed.
C17_Witness ==
    /\ cparsed.done
    /\ ccase.payload.data < 0
    /\ cmsg.type = "pmessage"
    /\ cparsed.value = ccase.payload

\* The threads that hold a channel inside _publish.
Holding == {t \in Threads : tpc[t] \in {"send", "release"}}

\* C19: whatever the interleaving of the threads' publish calls, at most one
\* channel pool is ever created and the publishes in flight hold no more
\* than 10 channels.
C19_BoundedChannels ==
    /\ Len(pools) <= 1
    /\ Cardinality(Holding) <= PoolSize
    /\ \A k \in 1..Len(pools) : pools[k] <= PoolSize

====
